---- MODULE Spec2Model ----
(***************************************************************************)
(* Model of the work-item completion workflow of ado_ai:                   *)
(*   - WorkflowOrchestrator.complete_work_item (core/workflow.py)          *)
(*   - AzureDevOpsClient.get_work_item / get_comments / update_work_item / *)
(*     add_comment (azure_devops/client.py), each under its tenacity       *)
(*     @retry decorator                                                    *)
(*   - ClaudeClient.analyze_work_item (ai/claude_client.py)                *)
(*   - WorkflowPresenter.confirm_changes (core/presenter.py)               *)
(* One run of complete_work_item is a sequence of steps; the position in   *)
(* the function body is pc.  The tracking service, the LLM API, the        *)
(* presenter and the progress callback are the environment: every call to  *)
(* them draws its outcome from a small set.                                *)
(*                                                                         *)
(* Text is a sequence of fragments (an f-string is a concatenation); an    *)
(* Optional value is None (= <<>>) or Some(v) (= <<v>>).                   *)
(* The one-line console prints of the presenter (print_step,               *)
(* print_warning, print_error, print_success) are taken not to raise; the  *)
(* display panels, the confirmation prompt and the progress callback may.  *)
(***************************************************************************)
EXTENDS Integers, Sequences, FiniteSets, TLC

\* ------------------------------------------------------------------ bounds
MaxWorkItemId == 2
MaxRetryAfter == 1
MaxWebOps == 2
MaxTags == 2
MaxTokens == 2
MaxBody == 4

\* ------------------------------------------------------- program constants
MaxAttempts == 3
MarkerTag == <<"A", "I", "-", "C", "o", "m", "p", "l", "e", "t", "e", "d">>

\* ---------------------------------------------------------------- helpers
None == <<>>
Some(x) == <<x>>

\* ------------------------------------------------------ exception classes
\* The direct base class of every exception class the code names.
BaseOf(cls) ==
    CASE cls = "AdoAiError" -> "Exception"
      [] cls = "ConfigurationError" -> "AdoAiError"
      [] cls = "AzureDevOpsError" -> "AdoAiError"
      [] cls = "WorkItemNotFoundError" -> "AzureDevOpsError"
      [] cls = "AuthenticationError" -> "AdoAiError"
      [] cls = "ClaudeAPIError" -> "AdoAiError"
      [] cls = "RateLimitError" -> "AdoAiError"
      [] cls = "WorkflowError" -> "AdoAiError"
      [] cls = "AzureDevOpsServiceError" -> "Exception"
      [] cls = "APIError" -> "Exception"
      [] cls = "AnthropicRateLimitError" -> "APIError"
      [] cls = "JSONDecodeError" -> "Exception"
      [] OTHER -> "Exception"

RECURSIVE IsInstance(_, _)
IsInstance(cls, base) ==
    IF cls = base THEN TRUE
    ELSE IF cls = "Exception" THEN FALSE
    ELSE IsInstance(BaseOf(cls), base)

\* An exception value: its class, str(e), and the retry_after attribute.
Exc(cls, msg) == [cls |-> cls, msg |-> msg, retry_after |-> None]

\* WorkItemNotFoundError.__init__
WorkItemNotFoundError(id) ==
    Exc("WorkItemNotFoundError", <<"Work item ", ToString(id), " not found">>)

\* RateLimitError.__init__: the hint is stored; it is put in the message
\* only when it is truthy (not None, not 0).
RateLimitError(retry_after) ==
    [cls |-> "RateLimitError",
     msg |-> IF retry_after /= None /\ retry_after /= Some(0)
             THEN <<"API rate limit exceeded", ". Retry after ", ToString(retry_after[1]), " seconds">>
             ELSE <<"API rate limit exceeded">>,
     retry_after |-> retry_after]

\* ------------------------------------------------------- tenacity @retry
\* retry_if_exception_type(types): isinstance of the exception that left
\* the decorated function.
RetryIfExceptionType(e, types) == \E t \in types : IsInstance(e.cls, t)

\* retry=..., stop=stop_after_attempt(3), reraise=True: after attempt
\* number n raised e, the call is made again iff the predicate holds and
\* n < 3; otherwise e is re-raised.
TenacityRetries(e, types, n) == RetryIfExceptionType(e, types) /\ n < MaxAttempts

\* The exception types each decorator names.
TrackingRetryTypes == {"AzureDevOpsServiceError"}
AnalysisRetryTypes == {"APIError"}

\* ------------------------------------------------------------- data model
\* Python str.split(sep) on a sequence of characters.
RECURSIVE SplitFrom(_, _, _, _)
SplitFrom(s, sep, i, cur) ==
    IF i > Len(s) THEN <<cur>>
    ELSE IF s[i] = sep THEN <<cur>> \o SplitFrom(s, sep, i + 1, <<>>)
    ELSE SplitFrom(s, sep, i + 1, Append(cur, s[i]))

Split(s, sep) == SplitFrom(s, sep, 1, <<>>)

\* Python sep.join(parts).
RECURSIVE Join(_, _)
Join(parts, sep) ==
    IF Len(parts) = 0 THEN <<>>
    ELSE IF Len(parts) = 1 THEN parts[1]
    ELSE parts[1] \o <<sep>> \o Join(Tail(parts), sep)

InSeq(x, seq) == \E i \in 1..Len(seq) : seq[i] = x

\* dict.get(key, default)
DictGet(d, key, default) == IF key \in DOMAIN d THEN d[key] ELSE default

\* The work items the tracking service may hold: state, remaining work
\* (None or a number of hours) and the semicolon-delimited tag string
\* (None or a sequence of characters).
TrackerItems ==
    { [state |-> "Active", remaining_work |-> Some(4), tags |-> Some(<<"f", "o", "o">>)],
      [state |-> "Resolved", remaining_work |-> None, tags |-> None],
      [state |-> "Active", remaining_work |-> Some(0),
       tags |-> Some(<<"f", "o", "o", ";">> \o MarkerTag)] }

\* WorkItem(...) as get_work_item builds it from the raw fields.
WorkItem(id, raw) ==
    [id |-> id, state |-> raw.state, remaining_work |-> raw.remaining_work, tags |-> raw.tags]

\* str.lower() on a sequence of characters.
UpperLetters ==
    <<"A", "B", "C", "D", "E", "F", "G", "H", "I", "J", "K", "L", "M",
      "N", "O", "P", "Q", "R", "S", "T", "U", "V", "W", "X", "Y", "Z">>
LowerLetters ==
    <<"a", "b", "c", "d", "e", "f", "g", "h", "i", "j", "k", "l", "m",
      "n", "o", "p", "q", "r", "s", "t", "u", "v", "w", "x", "y", "z">>
LowerChar(c) ==
    IF \E i \in 1..Len(UpperLetters) : UpperLetters[i] = c
    THEN LowerLetters[CHOOSE i \in 1..Len(UpperLetters) : UpperLetters[i] = c]
    ELSE c
StrLower(s) == [i \in 1..Len(s) |-> LowerChar(s[i])]

\* sub in s
Contains(s, sub) ==
    \E i \in 1..(Len(s) - Len(sub) + 1) : SubSeq(s, i, i + Len(sub) - 1) = sub

\* TokenUsage.calculate_cost.  The cost is kept in millionths of a dollar:
\* tokens / 1_000_000 * rate dollars is tokens * rate millionths.
Million == 1000000
OpusInputRate == 5
OpusOutputRate == 25
SonnetInputRate == 1
SonnetOutputRate == 5
OpusName == <<"o", "p", "u", "s">>
SonnetName == <<"s", "o", "n", "n", "e", "t">>

\* calculate_cost testing the name as given, without lower().
CalculateCostCaseSensitive(usage, model) ==
    IF Contains(model, OpusName)
    THEN usage.input_tokens * OpusInputRate + usage.output_tokens * OpusOutputRate
    ELSE IF Contains(model, SonnetName)
    THEN usage.input_tokens * SonnetInputRate + usage.output_tokens * SonnetOutputRate
    ELSE usage.input_tokens * OpusInputRate + usage.output_tokens * OpusOutputRate

CalculateCost(usage, model) ==
    IF Contains(StrLower(model), OpusName)
    THEN usage.input_tokens * OpusInputRate + usage.output_tokens * OpusOutputRate
    ELSE IF Contains(StrLower(model), SonnetName)
    THEN usage.input_tokens * SonnetInputRate + usage.output_tokens * SonnetOutputRate
    ELSE usage.input_tokens * OpusInputRate + usage.output_tokens * OpusOutputRate

\* The JSON objects the LLM may answer with (after parsing).
FullResponse ==
    [analysis |-> <<"a">>, solution |-> <<"s">>, tasks |-> <<"t1", "t2">>,
     risks |-> <<"r1">>, suggested_status |-> "Resolved",
     suggested_remaining_work |-> 0, comment |-> <<"Fixed.">>,
     file_changes |-> <<"main.py">>]
BareResponse == [analysis |-> <<"a">>]
CommentResponse == [comment |-> <<"Fixed.">>]
ParsedResponses == {FullResponse, BareResponse, CommentResponse}

\* The token counts the API reports with an answer (response.usage).
ResponseUsage == [input_tokens |-> 1, output_tokens |-> 2]

\* AnalysisResult(...) with a fixed default for the suggested state.
AnalysisResultFixedStatus(parsed, work_item) ==
    [analysis |-> DictGet(parsed, "analysis", <<>>),
     solution |-> DictGet(parsed, "solution", <<>>),
     tasks |-> DictGet(parsed, "tasks", <<>>),
     risks |-> DictGet(parsed, "risks", <<>>),
     suggested_status |-> DictGet(parsed, "suggested_status", "Resolved"),
     suggested_remaining_work |-> DictGet(parsed, "suggested_remaining_work", 0),
     comment |-> DictGet(parsed, "comment", <<>>),
     token_usage |-> ResponseUsage,
     file_changes |-> DictGet(parsed, "file_changes", <<>>)]

\* AnalysisResult(...) with the defaults of the parsed_response.get calls.
AnalysisResult(parsed, work_item) ==
    [analysis |-> DictGet(parsed, "analysis", <<>>),
     solution |-> DictGet(parsed, "solution", <<>>),
     tasks |-> DictGet(parsed, "tasks", <<>>),
     risks |-> DictGet(parsed, "risks", <<>>),
     suggested_status |-> DictGet(parsed, "suggested_status", work_item.state),
     suggested_remaining_work |-> DictGet(parsed, "suggested_remaining_work", 0),
     comment |-> DictGet(parsed, "comment", <<>>),
     token_usage |-> ResponseUsage,
     file_changes |-> DictGet(parsed, "file_changes", <<>>)]

\* WorkflowResult.__init__
WorkflowResult(success, id, wi, an, upd, err) ==
    [success |-> success, work_item_id |-> id, work_item |-> wi, analysis |-> an,
     update_result |-> upd, error_message |-> err]

\* UpdateWorkItemResult
UpdateWorkItemResult(success, id, updated, err) ==
    [success |-> success, work_item_id |-> id, updated_fields |-> updated,
     error_message |-> err]

\* WorkflowOrchestrator._build_update_fields: the field map, keyed by field
\* path.
StateField == "System.State"
RemainingWorkField == "Microsoft.VSTS.Scheduling.RemainingWork"
TagsField == "System.Tags"
FieldOrder == <<StateField, RemainingWorkField, TagsField>>

\* The tag string taken as one tag, without splitting.
ExistingTagsUnsplit(work_item) ==
    IF work_item.tags /= None /\ work_item.tags /= Some(<<>>)
    THEN <<work_item.tags[1]>> ELSE <<>>

ExistingTags(work_item) ==
    IF work_item.tags /= None /\ work_item.tags /= Some(<<>>)
    THEN Split(work_item.tags[1], ";") ELSE <<>>

\* The remaining-work test with an absent current value read as 0.
RemainingWorkChangedNullIsZero(work_item, analysis) ==
    analysis.suggested_remaining_work /=
        (IF work_item.remaining_work = None THEN 0 ELSE work_item.remaining_work[1])

\* analysis.suggested_remaining_work != work_item.remaining_work
RemainingWorkChanged(work_item, analysis) ==
    Some(analysis.suggested_remaining_work) /= work_item.remaining_work

\* The keys of the field map when the tags are always rewritten.
BuildUpdateFieldKeysAlwaysTags(work_item, analysis) ==
    {k \in {StateField} :
        analysis.suggested_status /= "" /\ analysis.suggested_status /= work_item.state}
    \cup {k \in {RemainingWorkField} : RemainingWorkChanged(work_item, analysis)}
    \cup {TagsField}

BuildUpdateFieldKeys(work_item, analysis) ==
    {k \in {StateField} :
        analysis.suggested_status /= "" /\ analysis.suggested_status /= work_item.state}
    \cup {k \in {RemainingWorkField} : RemainingWorkChanged(work_item, analysis)}
    \cup {k \in {TagsField} : ~InSeq(MarkerTag, ExistingTags(work_item))}

\* The field map with the tags rejoined by a comma.
BuildUpdateFieldsCommaJoin(work_item, analysis) ==
    [k \in BuildUpdateFieldKeys(work_item, analysis) |->
        CASE k = StateField -> analysis.suggested_status
          [] k = RemainingWorkField -> analysis.suggested_remaining_work
          [] k = TagsField -> Join(Append(ExistingTags(work_item), MarkerTag), ",")]

BuildUpdateFields(work_item, analysis) ==
    [k \in BuildUpdateFieldKeys(work_item, analysis) |->
        CASE k = StateField -> analysis.suggested_status
          [] k = RemainingWorkField -> analysis.suggested_remaining_work
          [] k = TagsField -> Join(Append(ExistingTags(work_item), MarkerTag), ";")]

\* list(fields.keys()): the keys in insertion order.
FieldKeys(fields) == SelectSeq(FieldOrder, LAMBDA k : k \in DOMAIN fields)

\* WorkflowOrchestrator._format_ai_comment
FormatAiComment(analysis) ==
    <<"AI Analysis\n\n">> \o analysis.comment \o <<"\n\n---\n*Generated by Claude AI*\n">>

\* ------------------------------------------------------------------ state
VARIABLES
    work_item_id,      \* argument: the work item to complete
    auto_approve,      \* argument
    dry_run,           \* argument
    display,           \* argument
    has_callback,      \* argument: progress_callback is not None
    settings,          \* self.settings: [auto_approve, dry_run]
    tracker,           \* the raw fields the tracking service holds for the item
    pc,                \* position in complete_work_item
    attempt,           \* tenacity attempt number of the client call in progress
    exc,               \* exception raised inside the try block, if any
    work_item,         \* local: Optional WorkItem
    recent_comments,   \* local: Optional list of comments
    analysis,          \* local: Optional AnalysisResult
    update_fields,     \* local: Optional field map
    update_result,     \* local: Optional UpdateWorkItemResult
    result,            \* the returned WorkflowResult, if the call returned
    escaped,           \* the exception that left complete_work_item, if any
    events,            \* calls received by the progress callback, in order
    tracker_log,       \* outcome of every wit_client.get_work_item call
    api_log,           \* outcome of every client.messages.create call, and the comments in its prompt
    patch_log,         \* outcome and field map of every wit_client.update_work_item call
    comment_log,       \* outcome and text of every wit_client.add_comment call
    comments_log,      \* outcome of every wit_client.get_comments call
    fetch_raised,      \* the exception get_work_item raised, if any
    analyze_raised,    \* the exception analyze_work_item raised, if any
    confirm_log,       \* replies typed at the confirmation prompt
    sink_failed,       \* a display panel or the progress callback has raised
    mode,              \* who calls the orchestrator: "direct", "cli" or "web"
    caller_pc,         \* position of the CLI command or of the web service
    exit_code,         \* CLI: the code passed to sys.exit, if any
    db,                \* web: the committed work_item_history rows, oldest first
    response,          \* web: the answer to the last request, if any
    observed,          \* web: statuses a client has read from history rows
    web_callback,      \* web: the service was given a progress_callback
    web_ops,           \* web: number of service operations started
    fn_args,           \* the arguments of a function applied on its own
    fn_result          \* what that function returned or raised, if it was applied

vars == <<work_item_id, auto_approve, dry_run, display, has_callback, settings,
          tracker, pc, attempt, exc, work_item, recent_comments, analysis,
          update_fields, update_result, result, escaped, events, tracker_log,
          api_log, patch_log, comment_log, comments_log, fetch_raised,
          analyze_raised, confirm_log, sink_failed, mode, caller_pc, exit_code,
          db, response, observed, web_callback, web_ops, fn_args, fn_result>>

fn == <<fn_args, fn_result>>
caller == <<mode, caller_pc, exit_code, db, response, observed, web_callback, web_ops, fn>>
args == <<work_item_id, auto_approve, dry_run, display, has_callback, settings>>
locals == <<work_item, recent_comments, analysis, update_fields, update_result>>
logs == <<tracker_log, api_log, patch_log, comment_log, comments_log,
          fetch_raised, analyze_raised, confirm_log>>

WorkItemIds == 1..MaxWorkItemId

runstate == <<pc, attempt, exc, locals, result, escaped, events, logs, sink_failed>>

\* The state of a run that has not executed any step yet.
FreshRun(at) ==
    /\ pc = at
    /\ attempt = 1
    /\ exc = None
    /\ work_item = None
    /\ recent_comments = None
    /\ analysis = None
    /\ update_fields = None
    /\ update_result = None
    /\ result = None
    /\ escaped = None
    /\ events = <<>>
    /\ tracker_log = <<>>
    /\ api_log = <<>>
    /\ patch_log = <<>>
    /\ comment_log = <<>>
    /\ comments_log = <<>>
    /\ fetch_raised = None
    /\ analyze_raised = None
    /\ confirm_log = <<>>
    /\ sink_failed = FALSE

\* The orchestrator called directly, with any arguments.
InitDirect ==
    /\ mode = "direct"
    /\ caller_pc = "direct"
    /\ auto_approve \in BOOLEAN
    /\ dry_run \in BOOLEAN
    /\ display \in BOOLEAN
    /\ has_callback \in BOOLEAN
    /\ settings \in [auto_approve : BOOLEAN, dry_run : BOOLEAN]
    /\ web_callback = FALSE
    /\ FreshRun("fetching")

\* The CLI commands `complete` and `fetch`: auto_approve and dry_run are the
\* command-line flags of `complete`, settings is what get_settings() loads
\* from the environment.
InitCli ==
    /\ mode = "cli"
    /\ caller_pc = "cli_start"
    /\ auto_approve \in BOOLEAN
    /\ dry_run \in BOOLEAN
    /\ display = TRUE
    /\ has_callback = FALSE
    /\ settings \in [auto_approve : BOOLEAN, dry_run : BOOLEAN]
    /\ web_callback = FALSE
    /\ FreshRun("idle")

\* The web service: settings.auto_approve is the value stored for the user.
InitWeb ==
    /\ mode = "web"
    /\ caller_pc = "web_idle"
    /\ auto_approve = FALSE
    /\ dry_run = FALSE
    /\ display = FALSE
    /\ has_callback = FALSE
    /\ settings \in [auto_approve : BOOLEAN, dry_run : {FALSE}]
    /\ web_callback \in BOOLEAN
    /\ FreshRun("idle")

Init ==
    /\ work_item_id \in WorkItemIds
    /\ tracker \in TrackerItems
    /\ exit_code = None
    /\ db = <<>>
    /\ response = None
    /\ observed = {}
    /\ web_ops = 0
    /\ fn_args = None
    /\ fn_result = None
    /\ (InitDirect \/ InitCli \/ InitWeb)

\* ------------------------------------------------------------ environment
\* What a call of the progress callback or of a display panel may do.
SinkOutcomes == {"ok", "raise"}
SinkError == Exc("Exception", <<"sink failed">>)

\* What wit_client.get_work_item may do: return the raw item, return None,
\* raise AzureDevOpsServiceError with a status code, raise something else.
TrackerOutcomes ==
    { [kind |-> "ok", status |-> 200], [kind |-> "none", status |-> 200],
      [kind |-> "service_error", status |-> 404],
      [kind |-> "service_error", status |-> 401],
      [kind |-> "service_error", status |-> 403],
      [kind |-> "service_error", status |-> 500],
      [kind |-> "other", status |-> 0] }

\* What wit_client.update_work_item / add_comment / get_comments may do.
WriteOutcomes ==
    { [kind |-> "ok", status |-> 200], [kind |-> "service_error", status |-> 500],
      [kind |-> "other", status |-> 0] }

ServiceErrorText(o) == <<"service error ", ToString(o.status)>>
OtherErrorText == <<"connection lost">>

\* What client.messages.create may do: answer with a body that parses to a
\* JSON object, answer with a body _parse_json_response cannot decode, raise
\* the rate-limit error (with or without a retry_after attribute), raise
\* another APIError, raise something else.
RetryAfterHints == {None} \cup {Some(n) : n \in 0..MaxRetryAfter}
ApiOutcomes ==
    { [kind |-> "ok", parsed |-> p, retry_after |-> None] : p \in ParsedResponses }
    \cup { [kind |-> k, parsed |-> BareResponse, retry_after |-> None] :
             k \in {"malformed", "api_error", "other"} }
    \cup { [kind |-> "rate_limit", parsed |-> BareResponse, retry_after |-> h] :
             h \in RetryAfterHints }

\* ------------------------------------------------------- emit_progress
\* emit_progress(step, data): the callback is called when there is one;
\* otherwise the step is printed when display is on.
ProgressData(error) == [work_item_id |-> work_item_id, error |-> error]
Emitted(step, error) ==
    IF has_callback THEN Append(events, [step |-> step, data |-> ProgressData(error)])
    ELSE events
\* In web mode the callback is db_progress_callback, which only forwards to
\* the progress_callback the service was given, if any.
EmitRaises(sink) == has_callback /\ sink = "raise" /\ (mode = "web" => web_callback)

\* An exception raised inside the try block: control moves to the handler.
Raise(e) ==
    /\ exc' = Some(e)
    /\ pc' = "except"

\* ------------------------------------------- AzureDevOpsClient.get_work_item
\* The except clauses without the status_code tests.
GetWorkItemExceptNoStatus(id, e, status) ==
    IF IsInstance(e.cls, "AzureDevOpsServiceError")
    THEN Exc("AzureDevOpsError", <<"Azure DevOps API error: ">> \o e.msg)
    ELSE IF IsInstance(e.cls, "WorkItemNotFoundError") THEN e
    ELSE Exc("AzureDevOpsError", <<"Failed to fetch work item: ">> \o e.msg)

\* The except clauses of get_work_item, in source order, applied to the
\* exception e raised inside its try block.
GetWorkItemExcept(id, e, status) ==
    IF IsInstance(e.cls, "AzureDevOpsServiceError") THEN
        IF status = 404 THEN WorkItemNotFoundError(id)
        ELSE IF status = 401 \/ status = 403
             THEN Exc("AuthenticationError", <<"Invalid PAT or insufficient permissions">>)
             ELSE Exc("AzureDevOpsError", <<"Azure DevOps API error: ">> \o e.msg)
    ELSE IF IsInstance(e.cls, "WorkItemNotFoundError") THEN e
    ELSE Exc("AzureDevOpsError", <<"Failed to fetch work item: ">> \o e.msg)

\* One execution of the body of get_work_item against backend outcome o:
\* what it returns or raises.
GetWorkItemBody(id, raw, o) ==
    CASE o.kind = "ok" ->
            [raised |-> FALSE, value |-> WorkItem(id, raw), exc |-> SinkError]
      [] o.kind = "none" ->
            [raised |-> TRUE, value |-> WorkItem(id, raw),
             exc |-> GetWorkItemExcept(id, WorkItemNotFoundError(id), o.status)]
      [] o.kind = "service_error" ->
            [raised |-> TRUE, value |-> WorkItem(id, raw),
             exc |-> GetWorkItemExcept(id, Exc("AzureDevOpsServiceError", ServiceErrorText(o)),
                                       o.status)]
      [] OTHER ->
            [raised |-> TRUE, value |-> WorkItem(id, raw),
             exc |-> GetWorkItemExcept(id, Exc("Exception", OtherErrorText), o.status)]

\* ------------------------------------------- ClaudeClient.analyze_work_item
\* The except clauses with the APIError clause ahead of the rate-limit one.
AnalyzeExceptApiErrorFirst(e) ==
    IF IsInstance(e.cls, "APIError")
    THEN Exc("ClaudeAPIError", <<"Claude API error: ">> \o e.msg)
    ELSE IF IsInstance(e.cls, "AnthropicRateLimitError") THEN RateLimitError(e.retry_after)
    ELSE IF IsInstance(e.cls, "ClaudeAPIError") THEN e
    ELSE Exc("ClaudeAPIError", <<"Failed to analyze work item: ">> \o e.msg)

\* The except clauses of analyze_work_item, in source order.
AnalyzeExcept(e) ==
    IF IsInstance(e.cls, "AnthropicRateLimitError") THEN RateLimitError(e.retry_after)
    ELSE IF IsInstance(e.cls, "APIError")
         THEN Exc("ClaudeAPIError", <<"Claude API error: ">> \o e.msg)
    ELSE IF IsInstance(e.cls, "ClaudeAPIError") THEN e
    ELSE Exc("ClaudeAPIError", <<"Failed to analyze work item: ">> \o e.msg)

\* One execution of the body of analyze_work_item against API outcome o.
AnalyzeBody(wi, o) ==
    CASE o.kind = "ok" ->
            [raised |-> FALSE, value |-> AnalysisResult(o.parsed, wi), exc |-> SinkError]
      [] o.kind = "malformed" ->
            [raised |-> TRUE, value |-> AnalysisResult(o.parsed, wi),
             exc |-> AnalyzeExcept(Exc("ClaudeAPIError",
                        <<"Failed to parse JSON response from Claude: ", "decode error">>))]
      [] o.kind = "rate_limit" ->
            [raised |-> TRUE, value |-> AnalysisResult(o.parsed, wi),
             exc |-> AnalyzeExcept([cls |-> "AnthropicRateLimitError",
                                    msg |-> <<"rate limited">>,
                                    retry_after |-> o.retry_after])]
      [] o.kind = "api_error" ->
            [raised |-> TRUE, value |-> AnalysisResult(o.parsed, wi),
             exc |-> AnalyzeExcept(Exc("APIError", <<"overloaded">>))]
      [] OTHER ->
            [raised |-> TRUE, value |-> AnalysisResult(o.parsed, wi),
             exc |-> AnalyzeExcept(Exc("Exception", OtherErrorText))]

\* ------------------------------------------------ AzureDevOpsClient.add_comment
\* add_comment letting the service error of the backend call through.
AddCommentBodyReraises(o) ==
    IF o.kind = "ok" THEN [raised |-> FALSE, exc |-> SinkError]
    ELSE [raised |-> TRUE,
          exc |-> IF o.kind = "service_error"
                  THEN Exc("AzureDevOpsServiceError", ServiceErrorText(o))
                  ELSE Exc("AzureDevOpsError", <<"Failed to add comment: ">> \o OtherErrorText)]

\* add_comment turns every failure of the backend call into AzureDevOpsError.
AddCommentBody(o) ==
    IF o.kind = "ok" THEN [raised |-> FALSE, exc |-> SinkError]
    ELSE [raised |-> TRUE,
          exc |-> Exc("AzureDevOpsError",
                      <<"Failed to add comment: ">> \o
                      (IF o.kind = "service_error" THEN ServiceErrorText(o) ELSE OtherErrorText))]

\* ------------------------------------------- AzureDevOpsClient.update_work_item
\* The except clauses of update_work_item: every exception raised inside
\* its try block becomes a failure outcome.
UpdateWorkItemExceptNoText(id, e) == UpdateWorkItemResult(FALSE, id, <<>>, None)

UpdateWorkItemExcept(id, e) ==
    IF IsInstance(e.cls, "AzureDevOpsServiceError")
    THEN UpdateWorkItemResult(FALSE, id, <<>>, Some(<<"Azure DevOps API error: ">> \o e.msg))
    ELSE UpdateWorkItemResult(FALSE, id, <<>>, Some(<<"Failed to update work item: ">> \o e.msg))

\* The outcome update_work_item returns once its try block completed.
UpdateWorkItemSuccess(id, fields) == UpdateWorkItemResult(TRUE, id, FieldKeys(fields), None)

\* ------------------------------------------- WorkflowPresenter.confirm_changes
\* What may be typed at the prompt, and str.lower() of it.
Replies == {"y", "yes", "Y", "YES", "n", "no", ""}
Lower(r) == CASE r = "Y" -> "y" [] r = "YES" -> "yes" [] OTHER -> r
ConfirmChanges(r) == Lower(r) \in {"y", "yes"}

\* --------------------------------- WorkflowOrchestrator.complete_work_item
\* emit_progress(step, ...) followed by a move to position next, or to the
\* handler when the callback raises.
EmitThen(step, error, sink, next) ==
    /\ events' = Emitted(step, error)
    /\ IF EmitRaises(sink)
       THEN Raise(SinkError) /\ sink_failed' = TRUE
       ELSE pc' = next /\ UNCHANGED <<exc, sink_failed>>

\* Step 1: emit_progress("fetching").
EmitFetching ==
    /\ pc = "fetching"
    /\ \E sink \in SinkOutcomes : EmitThen("fetching", None, sink, "get_work_item")
    /\ attempt' = 1
    /\ UNCHANGED <<args, caller, tracker, locals, result, escaped, logs>>

\* Step 1: one attempt of self.azure_client.get_work_item under @retry.
GetWorkItem ==
    /\ pc = "get_work_item"
    /\ \E o \in TrackerOutcomes :
        LET r == GetWorkItemBody(work_item_id, tracker, o) IN
        /\ tracker_log' = Append(tracker_log, o)
        /\ IF ~r.raised THEN
              /\ work_item' = Some(r.value)
              /\ pc' = "display_work_item"
              /\ UNCHANGED <<attempt, exc, fetch_raised>>
           ELSE IF TenacityRetries(r.exc, TrackingRetryTypes, attempt) THEN
              /\ attempt' = attempt + 1
              /\ UNCHANGED <<pc, exc, work_item, fetch_raised>>
           ELSE
              /\ fetch_raised' = Some(r.exc)
              /\ Raise(r.exc)
              /\ UNCHANGED <<attempt, work_item>>
    /\ UNCHANGED <<args, caller, tracker, recent_comments, analysis, update_fields, update_result,
                   result, escaped, events, api_log, patch_log, comment_log,
                   comments_log, analyze_raised, confirm_log, sink_failed>>

\* presenter.display_work_item(work_item), when display is on.
DisplayWorkItem ==
    /\ pc = "display_work_item"
    /\ \E sink \in SinkOutcomes :
        IF display /\ sink = "raise"
        THEN Raise(SinkError) /\ sink_failed' = TRUE
        ELSE pc' = "fetching_comments" /\ UNCHANGED <<exc, sink_failed>>
    /\ UNCHANGED <<args, caller, tracker, attempt, locals, result, escaped, events, logs>>

\* Step 2: emit_progress("fetching_comments").
EmitFetchingComments ==
    /\ pc = "fetching_comments"
    /\ \E sink \in SinkOutcomes :
        EmitThen("fetching_comments", None, sink, "get_comments")
    /\ UNCHANGED <<args, caller, tracker, attempt, locals, result, escaped, logs>>

\* ------------------------------------------- AzureDevOpsClient.get_comments
\* get_comments without its try/except: a backend failure propagates.
CommentLists == {<<>>, <<"c1">>}
GetCommentsBodyPropagates(o, cs) ==
    IF o.kind = "ok" THEN [raised |-> FALSE, value |-> cs, exc |-> SinkError]
    ELSE [raised |-> TRUE, value |-> <<>>,
          exc |-> Exc(IF o.kind = "service_error" THEN "AzureDevOpsServiceError"
                      ELSE "Exception",
                      IF o.kind = "service_error" THEN ServiceErrorText(o)
                      ELSE OtherErrorText)]

\* One execution of get_comments against backend outcome o with the
\* backend's comment list cs: on any failure it returns [].
GetCommentsBody(o, cs) ==
    [raised |-> FALSE, value |-> IF o.kind = "ok" THEN cs ELSE <<>>, exc |-> SinkError]

\* Step 2: self.azure_client.get_comments(work_item_id, top=5).
GetComments ==
    /\ pc = "get_comments"
    /\ \E o \in WriteOutcomes, cs \in CommentLists :
        LET r == GetCommentsBody(o, cs) IN
        /\ comments_log' = Append(comments_log, o)
        /\ IF r.raised
           THEN Raise(r.exc) /\ UNCHANGED recent_comments
           ELSE /\ recent_comments' = Some(r.value)
                /\ pc' = "analyzing"
                /\ UNCHANGED exc
    /\ UNCHANGED <<args, caller, tracker, attempt, work_item, analysis, update_fields,
                   update_result, result, escaped, events, tracker_log, api_log,
                   patch_log, comment_log, fetch_raised, analyze_raised, confirm_log,
                   sink_failed>>

\* Step 3: emit_progress("analyzing").
EmitAnalyzing ==
    /\ pc = "analyzing"
    /\ \E sink \in SinkOutcomes : EmitThen("analyzing", None, sink, "analyze_work_item")
    /\ attempt' = 1
    /\ UNCHANGED <<args, caller, tracker, locals, result, escaped, logs>>

\* Step 3: one attempt of self.claude_client.analyze_work_item under @retry.
AnalyzeWorkItem ==
    /\ pc = "analyze_work_item"
    /\ \E o \in ApiOutcomes :
        LET r == AnalyzeBody(work_item[1], o) IN
        /\ api_log' = Append(api_log, [kind |-> o.kind, parsed |-> o.parsed,
                                      retry_after |-> o.retry_after,
                                      comments |-> recent_comments[1]])
        /\ IF ~r.raised THEN
              /\ analysis' = Some(r.value)
              /\ pc' = "display_analysis"
              /\ UNCHANGED <<attempt, exc, analyze_raised>>
           ELSE IF TenacityRetries(r.exc, AnalysisRetryTypes, attempt) THEN
              /\ attempt' = attempt + 1
              /\ UNCHANGED <<pc, exc, analysis, analyze_raised>>
           ELSE
              /\ analyze_raised' = Some(r.exc)
              /\ Raise(r.exc)
              /\ UNCHANGED <<attempt, analysis>>
    /\ UNCHANGED <<args, caller, tracker, work_item, recent_comments, update_fields, update_result,
                   result, escaped, events, tracker_log, patch_log, comment_log,
                   comments_log, fetch_raised, confirm_log, sink_failed>>

\* presenter.display_analysis(...), when display is on.
DisplayAnalysis ==
    /\ pc = "display_analysis"
    /\ \E sink \in SinkOutcomes :
        IF display /\ sink = "raise"
        THEN Raise(SinkError) /\ sink_failed' = TRUE
        ELSE pc' = "decide" /\ UNCHANGED <<exc, sink_failed>>
    /\ UNCHANGED <<args, caller, tracker, attempt, locals, result, escaped, events, logs>>

\* Step 4 without its return statement: the run goes on to the update.
DryRunCompleteFallsThrough ==
    /\ pc = "decide"
    /\ dry_run
    /\ \E sink \in SinkOutcomes : EmitThen("dry_run_complete", None, sink, "updating")
    /\ UNCHANGED <<args, caller, tracker, attempt, locals, result, escaped, logs>>

\* Step 4: if dry_run: emit "dry_run_complete" and return the analysis.
DryRunComplete ==
    /\ pc = "decide"
    /\ dry_run
    /\ \E sink \in SinkOutcomes :
        /\ EmitThen("dry_run_complete", None, sink, "returned")
        /\ result' = IF EmitRaises(sink) THEN result
                     ELSE Some(WorkflowResult(TRUE, work_item_id, work_item, analysis,
                                              None, None))
    /\ UNCHANGED <<args, caller, tracker, attempt, locals, escaped, logs>>

\* The result returned when the user declines at the prompt.
CancelledResultDropsAnalysis(id, wi, an) ==
    WorkflowResult(FALSE, id, wi, None, None, Some(<<"User cancelled changes">>))

CancelledResult(id, wi, an) ==
    WorkflowResult(FALSE, id, wi, an, None, Some(<<"User cancelled changes">>))

\* Step 5: confirmation, unless auto-approved; without display the need
\* for approval is only logged.
Confirm ==
    /\ pc = "decide"
    /\ ~dry_run
    /\ IF ~auto_approve /\ ~settings.auto_approve /\ display THEN
          \E r \in Replies \cup {"<raise>"} :
             IF r = "<raise>" THEN
                /\ Raise(SinkError)
                /\ sink_failed' = TRUE
                /\ UNCHANGED <<result, confirm_log>>
             ELSE
                /\ confirm_log' = Append(confirm_log, r)
                /\ UNCHANGED <<exc, sink_failed>>
                /\ IF ~ConfirmChanges(r) THEN
                      /\ pc' = "returned"
                      /\ result' = Some(CancelledResult(work_item_id, work_item, analysis))
                   ELSE
                      /\ pc' = "updating"
                      /\ UNCHANGED result
       ELSE
          /\ pc' = "updating"
          /\ UNCHANGED <<exc, sink_failed, result, confirm_log>>
    /\ UNCHANGED <<args, caller, tracker, attempt, locals, escaped, events, tracker_log, api_log,
                   patch_log, comment_log, comments_log, fetch_raised, analyze_raised>>

\* Step 6: emit_progress("updating") and _build_update_fields.
EmitUpdating ==
    /\ pc = "updating"
    /\ \E sink \in SinkOutcomes : EmitThen("updating", None, sink, "update_work_item")
    /\ update_fields' = IF pc' = "update_work_item"
                        THEN Some(BuildUpdateFields(work_item[1], analysis[1]))
                        ELSE update_fields
    /\ attempt' = 1
    /\ UNCHANGED <<args, caller, tracker, work_item, recent_comments, analysis, update_result,
                   result, escaped, logs>>

\* The tracking service applying an accepted field patch.
ApplyFieldsKeepsTags(raw, fields) ==
    [state |-> DictGet(fields, StateField, raw.state),
     remaining_work |-> IF RemainingWorkField \in DOMAIN fields
                        THEN Some(fields[RemainingWorkField]) ELSE raw.remaining_work,
     tags |-> raw.tags]

ApplyFields(raw, fields) ==
    [state |-> DictGet(fields, StateField, raw.state),
     remaining_work |-> IF RemainingWorkField \in DOMAIN fields
                        THEN Some(fields[RemainingWorkField]) ELSE raw.remaining_work,
     tags |-> IF TagsField \in DOMAIN fields THEN Some(fields[TagsField]) ELSE raw.tags]

\* Step 6: azure_client.update_work_item, first half: the field patch
\* (wit_client.update_work_item).  A failure is caught inside
\* update_work_item and returned as an outcome, so its @retry never sees an
\* exception.  The comment the orchestrator passes is never empty.
UpdateWorkItem ==
    /\ pc = "update_work_item"
    /\ \E o \in WriteOutcomes :
        /\ patch_log' = Append(patch_log, [kind |-> o.kind, status |-> o.status,
                                          fields |-> update_fields[1]])
        /\ IF o.kind = "ok" THEN
              /\ tracker' = ApplyFields(tracker, update_fields[1])
              /\ IF Len(FormatAiComment(analysis[1])) > 0
                 THEN pc' = "add_comment" /\ UNCHANGED update_result
                 ELSE /\ pc' = "report"
                      /\ update_result' =
                            Some(UpdateWorkItemSuccess(work_item_id, update_fields[1]))
           ELSE
              /\ UNCHANGED tracker
              /\ pc' = "report"
              /\ update_result' = Some(UpdateWorkItemExcept(work_item_id,
                    IF o.kind = "service_error"
                    THEN Exc("AzureDevOpsServiceError", ServiceErrorText(o))
                    ELSE Exc("Exception", OtherErrorText)))
    /\ attempt' = 1
    /\ UNCHANGED <<args, caller, exc, work_item, recent_comments, analysis, update_fields,
                   result, escaped, events, tracker_log, api_log, comment_log,
                   comments_log, fetch_raised, analyze_raised, confirm_log, sink_failed>>

\* Step 6: azure_client.update_work_item, second half: one attempt of
\* self.add_comment under @retry, inside the try block of update_work_item.
AddComment ==
    /\ pc = "add_comment"
    /\ \E o \in WriteOutcomes :
        LET r == AddCommentBody(o) IN
        /\ comment_log' = Append(comment_log, [kind |-> o.kind, status |-> o.status,
                                              text |-> FormatAiComment(analysis[1])])
        /\ IF ~r.raised THEN
              /\ update_result' = Some(UpdateWorkItemSuccess(work_item_id, update_fields[1]))
              /\ pc' = "report"
              /\ UNCHANGED attempt
           ELSE IF TenacityRetries(r.exc, TrackingRetryTypes, attempt) THEN
              /\ attempt' = attempt + 1
              /\ UNCHANGED <<pc, update_result>>
           ELSE
              /\ update_result' = Some(UpdateWorkItemExcept(work_item_id, r.exc))
              /\ pc' = "report"
              /\ UNCHANGED attempt
    /\ UNCHANGED <<args, caller, tracker, exc, work_item, recent_comments, analysis, update_fields,
                   result, escaped, events, tracker_log, api_log, patch_log,
                   comments_log, fetch_raised, analyze_raised, confirm_log, sink_failed>>

\* Step 6: emit "completed" or "failed" and return accordingly.
Report ==
    /\ pc = "report"
    /\ \E sink \in SinkOutcomes :
        IF update_result[1].success THEN
           /\ EmitThen("completed", None, sink, "returned")
           /\ result' = IF EmitRaises(sink) THEN result
                        ELSE Some(WorkflowResult(TRUE, work_item_id, work_item, analysis,
                                                 update_result, None))
        ELSE
           /\ EmitThen("failed", update_result[1].error_message, sink, "returned")
           /\ result' = IF EmitRaises(sink) THEN result
                        ELSE Some(WorkflowResult(FALSE, work_item_id, work_item, analysis,
                                    update_result, update_result[1].error_message))
    /\ UNCHANGED <<args, caller, tracker, attempt, locals, escaped, logs>>

\* The handler's result, reported as a success.
ExceptResultReportsSuccess(id, error_msg) ==
    WorkflowResult(TRUE, id, None, None, None, Some(error_msg))

\* The result the handler returns: no work item, analysis or update outcome.
ExceptResult(id, error_msg) ==
    WorkflowResult(FALSE, id, None, None, None, Some(error_msg))

\* except Exception as e: emit "error" and return a failure result.  The
\* emit is not guarded: when the callback raises here, the exception
\* leaves complete_work_item.
Except ==
    /\ pc = "except"
    /\ LET error_msg == <<"Workflow failed: ">> \o exc[1].msg IN
       \E sink \in SinkOutcomes :
        /\ events' = Emitted("error", Some(error_msg))
        /\ IF EmitRaises(sink) THEN
              /\ escaped' = Some(SinkError)
              /\ pc' = "raised"
              /\ sink_failed' = TRUE
              /\ UNCHANGED result
           ELSE
              /\ result' = Some(ExceptResult(work_item_id, error_msg))
              /\ pc' = "returned"
              /\ UNCHANGED <<escaped, sink_failed>>
    /\ UNCHANGED <<args, caller, tracker, attempt, exc, locals, logs>>

\* ------------------------------------------------------------ callers
\* The run variables of a complete_work_item call that is about to start.
StartRun ==
    /\ pc' = "fetching"
    /\ attempt' = 1
    /\ exc' = None
    /\ work_item' = None
    /\ recent_comments' = None
    /\ analysis' = None
    /\ update_fields' = None
    /\ update_result' = None
    /\ result' = None
    /\ escaped' = None
    /\ events' = <<>>
    /\ tracker_log' = <<>>
    /\ api_log' = <<>>
    /\ patch_log' = <<>>
    /\ comment_log' = <<>>
    /\ comments_log' = <<>>
    /\ fetch_raised' = None
    /\ analyze_raised' = None
    /\ confirm_log' = <<>>
    /\ sink_failed' = FALSE

\* What can happen while `complete` loads the settings and builds the clients.
CliSetupOutcomes == {"ok", "ConfigurationError", "AuthenticationError", "Exception"}

\* `complete`, up to the call of complete_work_item: the flags override the
\* loaded settings, and the flags themselves are what the call is given.
CliStart ==
    /\ mode = "cli"
    /\ caller_pc = "cli_start"
    /\ \E o \in CliSetupOutcomes :
          IF o = "ok" THEN
              /\ settings' = [auto_approve |-> settings.auto_approve \/ auto_approve,
                              dry_run |-> settings.dry_run \/ dry_run]
              /\ StartRun
              /\ caller_pc' = "cli_run"
              /\ UNCHANGED exit_code
          ELSE
              /\ exit_code' = Some(1)
              /\ caller_pc' = "cli_done"
              /\ UNCHANGED <<settings, runstate>>
    /\ UNCHANGED <<work_item_id, auto_approve, dry_run, display, has_callback,
                   tracker, mode, fn, db, response, observed, web_callback, web_ops>>

\* The exit code with a cancelled run counted as a success.
ExitCodeCancelledIsZero(res) ==
    IF res.success \/ res.error_message = Some(<<"User cancelled changes">>) THEN 0 ELSE 1

\* if result.success: sys.exit(0) else: sys.exit(1)
ExitCode(res) == IF res.success THEN 0 ELSE 1

\* `complete`, after the call: exit 0 for a successful result, 1 otherwise.
CliExit ==
    /\ mode = "cli"
    /\ caller_pc = "cli_run"
    /\ pc \in {"returned", "raised"}
    /\ exit_code' = Some(IF pc = "returned" THEN ExitCode(result[1]) ELSE 1)
    /\ caller_pc' = "cli_done"
    /\ UNCHANGED <<args, tracker, runstate, mode, fn, db, response, observed,
                   web_callback, web_ops>>

\* `fetch`, up to the call of fetch_work_item: the settings are loaded and
\* the clients built as in `complete`; there are no flags to apply.
CliFetchStart ==
    /\ mode = "cli"
    /\ caller_pc = "cli_start"
    /\ \E o \in CliSetupOutcomes :
          IF o = "ok" THEN
              /\ pc' = "fetch_work_item"
              /\ caller_pc' = "cli_fetch_run"
              /\ UNCHANGED exit_code
          ELSE
              /\ exit_code' = Some(1)
              /\ caller_pc' = "cli_done"
              /\ UNCHANGED pc
    /\ UNCHANGED <<args, tracker, attempt, exc, locals, result, escaped, events, logs,
                   sink_failed, mode, fn, db, response, observed, web_callback, web_ops>>

\* The result fetch_work_item returns from its except clause.
FetchExceptResult(id, e) ==
    WorkflowResult(FALSE, id, None, None, None,
                   Some(<<"Failed to fetch work item ", ToString(id), ": ">> \o e.msg))

\* fetch_work_item: one attempt of self.azure_client.get_work_item under
\* @retry; an exception that is not retried ends the call with a failure.
FetchWorkItemGet ==
    /\ pc = "fetch_work_item"
    /\ \E o \in TrackerOutcomes :
        LET r == GetWorkItemBody(work_item_id, tracker, o) IN
        /\ tracker_log' = Append(tracker_log, o)
        /\ IF ~r.raised THEN
              /\ work_item' = Some(r.value)
              /\ pc' = "fetch_display"
              /\ UNCHANGED <<attempt, result, fetch_raised>>
           ELSE IF TenacityRetries(r.exc, TrackingRetryTypes, attempt) THEN
              /\ attempt' = attempt + 1
              /\ UNCHANGED <<pc, work_item, result, fetch_raised>>
           ELSE
              /\ fetch_raised' = Some(r.exc)
              /\ result' = Some(FetchExceptResult(work_item_id, r.exc))
              /\ pc' = "fetch_returned"
              /\ UNCHANGED <<attempt, work_item>>
    /\ UNCHANGED <<args, caller, tracker, exc, recent_comments, analysis, update_fields,
                   update_result, escaped, events, api_log, patch_log, comment_log,
                   comments_log, analyze_raised, confirm_log, sink_failed>>

\* fetch_work_item: the work item is displayed when display is on, and the
\* result is returned; a failing display ends the call with a failure.
FetchWorkItemDisplay ==
    /\ pc = "fetch_display"
    /\ \E sink \in SinkOutcomes :
        IF display /\ sink = "raise" THEN
           /\ result' = Some(FetchExceptResult(work_item_id, SinkError))
           /\ sink_failed' = TRUE
        ELSE
           /\ result' = Some(WorkflowResult(TRUE, work_item_id, work_item, None, None, None))
           /\ UNCHANGED sink_failed
    /\ pc' = "fetch_returned"
    /\ UNCHANGED <<args, caller, tracker, attempt, exc, locals, escaped, events, logs>>

\* `fetch`, after the call: exit 0 for a successful result, 1 otherwise.
CliFetchExit ==
    /\ mode = "cli"
    /\ caller_pc = "cli_fetch_run"
    /\ pc = "fetch_returned"
    /\ exit_code' = Some(ExitCode(result[1]))
    /\ caller_pc' = "cli_done"
    /\ UNCHANGED <<args, tracker, runstate, mode, fn, db, response, observed,
                   web_callback, web_ops>>

\* The history row the service creates, with the statuses committed so far.
WorkItemHistory(id) ==
    [work_item_id |-> id, status |-> "analyzing", committed |-> <<"analyzing">>,
     error_message |-> None, completed_at |-> None, analysis_result |-> None,
     token_usage |-> None, cost |-> None]

\* A commit of the row with the given field values.
Commit(h, status, error_message, analysis_result) ==
    [h EXCEPT !.status = status,
              !.committed = Append(@, status),
              !.error_message = error_message,
              !.completed_at = Some("utcnow"),
              !.analysis_result = analysis_result]

\* The answer to a request: the endpoint, the HTTP code and, for the
\* endpoints that report on a history row, the row's status.
HttpError(op, code) == Some([op |-> op, code |-> code, status |-> None])
AnalysisResponse(h) == Some([op |-> "analyze", code |-> 200, status |-> Some(h.status)])

\* POST /{id}/analyze, first part: no configured user answers 404; otherwise
\* the service creates and commits the history row.
WebAnalyzeCreate ==
    /\ mode = "web"
    /\ caller_pc = "web_idle"
    /\ web_ops < MaxWebOps
    /\ web_ops' = web_ops + 1
    /\ \E user \in BOOLEAN :
          IF user THEN
              /\ db' = Append(db, WorkItemHistory(work_item_id))
              /\ response' = None
              /\ caller_pc' = "web_orchestrator"
          ELSE
              /\ response' = HttpError("analyze", 404)
              /\ UNCHANGED <<db, caller_pc>>
    /\ UNCHANGED <<args, tracker, runstate, mode, fn, exit_code, observed, web_callback>>

\* What _get_orchestrator can do.
OrchestratorOutcomes == {"ok", "ValueError", "AdoAiError"}

\* The arguments the service passes to complete_work_item.
WebRunArgsLive == [auto_approve |-> FALSE, dry_run |-> FALSE, display |-> FALSE]
WebRunArgs == [auto_approve |-> FALSE, dry_run |-> TRUE, display |-> FALSE]

\* The service builds the orchestrator and calls complete_work_item; a failure
\* to build it marks the row failed and the request answers 500.
WebGetOrchestrator ==
    /\ mode = "web"
    /\ caller_pc = "web_orchestrator"
    /\ \E o \in OrchestratorOutcomes :
          IF o = "ok" THEN
              /\ auto_approve' = WebRunArgs.auto_approve
              /\ dry_run' = WebRunArgs.dry_run
              /\ display' = WebRunArgs.display
              /\ has_callback' = TRUE
              /\ StartRun
              /\ caller_pc' = "web_run"
              /\ UNCHANGED <<db, response>>
          ELSE
              /\ db' = [db EXCEPT ![Len(db)] = Commit(@, "failed", Some(<<o>>), @.analysis_result)]
              /\ response' = HttpError("analyze", 500)
              /\ caller_pc' = "web_idle"
              /\ UNCHANGED <<auto_approve, dry_run, display, has_callback, runstate>>
    /\ UNCHANGED <<work_item_id, settings, tracker, mode, fn, exit_code, observed,
                   web_callback, web_ops>>

\* The analysis and the token counts as the service stores them on the row.
AnalysisDict(a) ==
    [analysis |-> a.analysis, solution |-> a.solution, tasks |-> a.tasks,
     risks |-> a.risks, suggested_status |-> a.suggested_status,
     suggested_remaining_work |-> a.suggested_remaining_work,
     comment |-> a.comment, file_changes |-> a.file_changes]
TokenUsageDict(a) ==
    [input_tokens |-> a.token_usage.input_tokens,
     output_tokens |-> a.token_usage.output_tokens]
StoreAnalysis(h, a) ==
    [h EXCEPT !.analysis_result = Some(AnalysisDict(a)),
              !.token_usage = Some(TokenUsageDict(a))]

\* get_decrypted_credentials for the cost: the stored model name, or nothing
\* when the lookup finds no credentials or raises.
StoredModels ==
    { <<"c", "l", "a", "u", "d", "e", "-", "o", "p", "u", "s", "-", "4", "-", "6">>,
      <<"c", "l", "a", "u", "d", "e", "-", "s", "o", "n", "n", "e", "t", "-", "4", "-", "5">> }
CredentialOutcomes == {None} \cup {Some(m) : m \in StoredModels}
StoreCost(h, a, model) ==
    [h EXCEPT !.cost = Some(CalculateCost(a.token_usage, model))]

\* The service after complete_work_item, and the answer of the request: a
\* successful result is stored as completed unless the credentials lookup for
\* the cost raises; a failed result or an exception is stored as failed.
WebAnalyzeFinish ==
    /\ mode = "web"
    /\ caller_pc = "web_run"
    /\ pc \in {"returned", "raised"}
    /\ LET h == db[Len(db)] IN
       IF pc = "raised" THEN
           /\ db' = [db EXCEPT ![Len(db)] = Commit(h, "failed", Some(escaped[1].msg), None)]
           /\ response' = HttpError("analyze", 500)
       ELSE IF ~result[1].success THEN
           /\ db' = [db EXCEPT ![Len(db)] = Commit(h, "failed", result[1].error_message, None)]
           /\ response' = AnalysisResponse(db'[Len(db)])
       ELSE IF result[1].analysis = None THEN
           /\ db' = [db EXCEPT ![Len(db)] = Commit(h, "completed", None, None)]
           /\ response' = AnalysisResponse(db'[Len(db)])
       ELSE \E creds \in CredentialOutcomes :
           LET a == result[1].analysis[1]
               stored == StoreAnalysis(h, a)
           IN  IF creds /= None THEN
                   /\ db' = [db EXCEPT ![Len(db)] =
                                Commit(StoreCost(stored, a, creds[1]), "completed", None,
                                       stored.analysis_result)]
                   /\ response' = AnalysisResponse(db'[Len(db)])
               ELSE
                   /\ db' = [db EXCEPT ![Len(db)] =
                                Commit(stored, "failed", Some(OtherErrorText),
                                       stored.analysis_result)]
                   /\ response' = HttpError("analyze", 500)
    /\ caller_pc' = "web_idle"
    /\ UNCHANGED <<args, tracker, runstate, mode, fn, exit_code, observed, web_callback, web_ops>>

\* GET /history/{id}: a client reads the status of a row.  The server is one
\* process and the analyze handler does not yield, so a read is served only
\* between requests.
WebGetAnalysisResult ==
    /\ mode = "web"
    /\ caller_pc = "web_idle"
    /\ web_ops < MaxWebOps
    /\ web_ops' = web_ops + 1
    /\ \E i \in 1..(Len(db) + 1) :
          IF i <= Len(db) THEN
              /\ observed' = observed \cup {db[i].status}
              /\ response' = Some([op |-> "history", code |-> 200, status |-> Some(db[i].status)])
          ELSE
              /\ response' = HttpError("history", 404)
              /\ UNCHANGED observed
    /\ UNCHANGED <<args, tracker, runstate, mode, fn, caller_pc, exit_code, db, web_callback>>

\* GET /{id}: the service fetches the work item and its comments; both are
\* reads of the tracking service.
WebFetchWorkItem ==
    /\ mode = "web"
    /\ caller_pc = "web_idle"
    /\ web_ops < MaxWebOps
    /\ web_ops' = web_ops + 1
    /\ \E o \in TrackerOutcomes :
          response' = IF o.kind = "ok" THEN Some([op |-> "fetch", code |-> 200, status |-> None])
                      ELSE HttpError("fetch", 500)
    /\ UNCHANGED <<args, tracker, runstate, mode, fn, caller_pc, exit_code, db, observed, web_callback>>

\* apply_changes: a placeholder that raises NotImplementedError.
WebApplyChanges ==
    /\ mode = "web"
    /\ caller_pc = "web_idle"
    /\ web_ops < MaxWebOps
    /\ web_ops' = web_ops + 1
    /\ response' = HttpError("apply", 500)
    /\ UNCHANGED <<args, tracker, runstate, mode, fn, caller_pc, exit_code, db, observed, web_callback>>

Next ==
    \/ EmitFetching
    \/ GetWorkItem
    \/ DisplayWorkItem
    \/ EmitFetchingComments
    \/ GetComments
    \/ EmitAnalyzing
    \/ AnalyzeWorkItem
    \/ DisplayAnalysis
    \/ DryRunComplete
    \/ Confirm
    \/ EmitUpdating
    \/ UpdateWorkItem
    \/ AddComment
    \/ Report
    \/ Except
    \/ CliStart
    \/ CliExit
    \/ CliFetchStart
    \/ FetchWorkItemGet
    \/ FetchWorkItemDisplay
    \/ CliFetchExit
    \/ WebAnalyzeCreate
    \/ WebGetOrchestrator
    \/ WebAnalyzeFinish
    \/ WebGetAnalysisResult
    \/ WebFetchWorkItem
    \/ WebApplyChanges

Spec == Init /\ [][Next]_vars

\* ------------------------------------------------- _build_update_fields alone
\* The tag strings, work items and analyses _build_update_fields is applied
\* to: up to MaxTags tags, among them the marker, the marker in lower case,
\* the marker after a blank, and the empty tag.
TagPieces ==
    { <<"f", "o", "o">>, MarkerTag, <<>>,
      <<"a", "i", "-", "c", "o", "m", "p", "l", "e", "t", "e", "d">>,
      <<" ">> \o MarkerTag }
TagLists == UNION { [1..n -> TagPieces] : n \in 0..MaxTags }
TagStrings == {None} \cup { Some(Join(l, ";")) : l \in TagLists }
DiffItems ==
    [state : {"Active", "Resolved"}, remaining_work : {None, Some(0), Some(4)},
     tags : TagStrings]
DiffAnalyses ==
    [analysis : {<<"a">>}, suggested_status : {"Active", "active", "Resolved", ""},
     suggested_remaining_work : {0, 4}, comment : {<<>>}]

InitDiff ==
    /\ work_item_id \in WorkItemIds
    /\ tracker \in DiffItems
    /\ work_item = Some(WorkItem(work_item_id, tracker))
    /\ analysis \in {Some(a) : a \in DiffAnalyses}
    /\ pc = "build_update_fields"
    /\ update_fields = None
    /\ mode = "direct"
    /\ caller_pc = "direct"
    /\ auto_approve = FALSE
    /\ dry_run = FALSE
    /\ display = FALSE
    /\ has_callback = FALSE
    /\ settings = [auto_approve |-> FALSE, dry_run |-> FALSE]
    /\ attempt = 1
    /\ exc = None
    /\ recent_comments = None
    /\ update_result = None
    /\ result = None
    /\ escaped = None
    /\ events = <<>>
    /\ tracker_log = <<>>
    /\ api_log = <<>>
    /\ patch_log = <<>>
    /\ comment_log = <<>>
    /\ comments_log = <<>>
    /\ fetch_raised = None
    /\ analyze_raised = None
    /\ confirm_log = <<>>
    /\ sink_failed = FALSE
    /\ exit_code = None
    /\ db = <<>>
    /\ response = None
    /\ observed = {}
    /\ web_callback = FALSE
    /\ web_ops = 0
    /\ fn_args = None
    /\ fn_result = None

\* self._build_update_fields(work_item, analysis)
BuildUpdateFieldsCall ==
    /\ pc = "build_update_fields"
    /\ update_fields' = Some(BuildUpdateFields(work_item[1], analysis[1]))
    /\ pc' = "built"
    /\ UNCHANGED <<args, caller, tracker, attempt, exc, work_item, recent_comments,
                   analysis, update_result, result, escaped, events, logs, sink_failed>>

\* The tracking service applies the returned map and the policy is evaluated
\* again, with the same analysis, on the updated work item; fn_args and
\* fn_result keep the first call's work item and map.
RebuildAfterUpdate ==
    /\ pc = "built"
    /\ fn_args' = work_item
    /\ fn_result' = update_fields
    /\ tracker' = ApplyFields(tracker, update_fields[1])
    /\ work_item' = Some(WorkItem(work_item_id, tracker'))
    /\ update_fields' = Some(BuildUpdateFields(work_item'[1], analysis[1]))
    /\ pc' = "rebuilt"
    /\ UNCHANGED <<args, mode, caller_pc, exit_code, db, response, observed, web_callback,
                   web_ops, attempt, exc, recent_comments, analysis, update_result,
                   result, escaped, events, logs, sink_failed>>

NextDiff ==
    \/ BuildUpdateFieldsCall
    \/ RebuildAfterUpdate

SpecDiff == InitDiff /\ [][NextDiff]_vars

\* ------------------------------------------------ functions applied alone
\* The usages and model names calculate_cost is applied to.
TokenCounts == (0..MaxTokens) \cup {Million}
TokenUsages == [input_tokens : TokenCounts, output_tokens : TokenCounts]
ModelNames ==
    { <<"c", "l", "a", "u", "d", "e", "-", "o", "p", "u", "s", "-", "4", "-", "6">>,
      <<"c", "l", "a", "u", "d", "e", "-", "s", "o", "n", "n", "e", "t", "-", "4", "-", "5">>,
      <<"f", "o", "o">>,
      <<"C", "l", "a", "u", "d", "e", "-", "O", "P", "U", "S">>,
      <<"S", "O", "N", "N", "E", "T">>,
      <<"s", "o", "n", "n", "e", "t", "-", "o", "p", "u", "s">>,
      <<>> }
CostArgs == [fn : {"calculate_cost"}, usage : TokenUsages, model : ModelNames]

\* AzureDevOpsClient._extract_identity_name.  An identity value is absent, a
\* plain string, a mapping or an object; a key or attribute is present or
\* not, and when present holds null, the empty string or a name.
Truthy(v) == v /= None /\ v /= Some(<<>>)
AttrStates ==
    { [present |-> FALSE, value |-> None], [present |-> TRUE, value |-> None],
      [present |-> TRUE, value |-> Some(<<>>)] }
NoAttr == [present |-> FALSE, value |-> None]
Identities ==
    { [kind |-> "none", text |-> <<>>, display_name |-> NoAttr, unique_name |-> NoAttr] }
    \cup { [kind |-> "str", text |-> t, display_name |-> NoAttr, unique_name |-> NoAttr] :
             t \in {<<>>, <<"Ann Lee">>} }
    \cup { [kind |-> k, text |-> <<>>, display_name |-> d, unique_name |-> u] :
             k \in {"dict", "object"},
             d \in AttrStates \cup {[present |-> TRUE, value |-> Some(<<"Ann Lee">>)]},
             u \in AttrStates \cup {[present |-> TRUE, value |-> Some(<<"ann@corp">>)]} }
IdentityArgs == [fn : {"_extract_identity_name"}, identity : Identities]

\* dict.get(key)
IdentityGet(attr) == IF attr.present THEN attr.value ELSE None
\* str(identity)
StrCoercion(identity) == Some(<<"str(", identity.kind, ")">>)

ExtractIdentityName(identity) ==
    IF identity.kind = "none" THEN None
    ELSE IF identity.kind = "str" THEN Some(identity.text)
    ELSE IF identity.kind = "dict" THEN
        IF Truthy(IdentityGet(identity.display_name))
        THEN IdentityGet(identity.display_name)
        ELSE IdentityGet(identity.unique_name)
    ELSE IF identity.display_name.present THEN identity.display_name.value
    ELSE IF identity.unique_name.present THEN identity.unique_name.value
    ELSE StrCoercion(identity)

\* ClaudeClient._parse_json_response.  A response text is a sequence of
\* pieces: the two fence markers, the braces, the content of a JSON object
\* and other text.  Every piece but a brace is longer than one character.
\* The markers of a block opened with three backquotes and the word json,
\* and of three backquotes alone.
JsonFence == "fence json"
Fence == "fence"
Pieces == {JsonFence, Fence, "{", "}", "k", "junk"}
ResponseTexts == UNION { [1..n -> Pieces] : n \in 0..MaxBody }
ParseArgs == [fn : {"_parse_json_response"}, response_text : ResponseTexts]

\* json.loads(text): the texts that are a JSON object.
JsonLoads(text) ==
    IF text \in { <<"{", "}">>, <<"{", "k", "}">> }
    THEN [raised |-> FALSE, value |-> text]
    ELSE [raised |-> TRUE, value |-> <<>>]

\* text.find(sub, start) for a sub found in the pieces of the set given, and
\* text.rfind(sub); 0 stands for the -1 of Python.
Find(text, pieces, start) ==
    IF \E i \in start..Len(text) : text[i] \in pieces
    THEN CHOOSE i \in start..Len(text) :
            /\ text[i] \in pieces
            /\ \A j \in start..(i - 1) : text[j] \notin pieces
    ELSE 0
RFind(text, pieces) ==
    IF \E i \in 1..Len(text) : text[i] \in pieces
    THEN CHOOSE i \in 1..Len(text) :
            /\ text[i] \in pieces
            /\ \A j \in (i + 1)..Len(text) : text[j] \notin pieces
    ELSE 0

\* A piece without its last character: a brace vanishes, anything else is no
\* longer what it was.
WithoutLastChar(piece) == IF piece \in {"{", "}"} THEN <<>> ELSE <<"junk">>

\* text[start:end] with start just after the opening fence at index open and
\* end = text.find(fence, start); when no fence follows, end is -1 and the
\* slice stops one character before the end of the text.
FencedBlock(text, open) ==
    LET start == open + 1
        end == Find(text, {JsonFence, Fence}, start)
    IN IF end /= 0 THEN SubSeq(text, start, end - 1)
       ELSE IF start > Len(text) THEN <<>>
       ELSE SubSeq(text, start, Len(text) - 1) \o WithoutLastChar(text[Len(text)])

\* text[start:end] from the first "{" to the last "}".
BraceSpan(text) == SubSeq(text, Find(text, {"{"}, 1), RFind(text, {"}"}))
HasBraceSpan(text) ==
    Find(text, {"{"}, 1) /= 0 /\ RFind(text, {"}"}) > Find(text, {"{"}, 1)

ParseJsonResponse(text) ==
    IF ~JsonLoads(text).raised THEN JsonLoads(text)
    ELSE IF Find(text, {JsonFence}, 1) /= 0
    THEN JsonLoads(FencedBlock(text, Find(text, {JsonFence}, 1)))
    ELSE IF Find(text, {Fence}, 1) /= 0
    THEN JsonLoads(FencedBlock(text, Find(text, {Fence}, 1)))
    ELSE IF HasBraceSpan(text) THEN JsonLoads(BraceSpan(text))
    ELSE [raised |-> TRUE, value |-> <<>>]

\* One function applied to one argument list.
InitFunctions ==
    /\ \/ fn_args \in {Some(a) : a \in CostArgs}
       \/ fn_args \in {Some(a) : a \in IdentityArgs}
       \/ fn_args \in {Some(a) : a \in ParseArgs}
    /\ fn_result = None
    /\ work_item_id = 1
    /\ tracker \in {t \in TrackerItems : t.tags = None}
    /\ mode = "direct"
    /\ caller_pc = "direct"
    /\ auto_approve = FALSE
    /\ dry_run = FALSE
    /\ display = FALSE
    /\ has_callback = FALSE
    /\ settings = [auto_approve |-> FALSE, dry_run |-> FALSE]
    /\ web_callback = FALSE
    /\ exit_code = None
    /\ db = <<>>
    /\ response = None
    /\ observed = {}
    /\ web_ops = 0
    /\ FreshRun("call")

Called(value) ==
    /\ fn_result' = Some(value)
    /\ pc' = "called"
    /\ UNCHANGED <<args, tracker, mode, caller_pc, exit_code, db, response, observed,
                   web_callback, web_ops, fn_args, attempt, exc, locals, result,
                   escaped, events, logs, sink_failed>>

CalculateCostCall ==
    /\ pc = "call"
    /\ fn_args[1].fn = "calculate_cost"
    /\ Called(CalculateCost(fn_args[1].usage, fn_args[1].model))

ExtractIdentityNameCall ==
    /\ pc = "call"
    /\ fn_args[1].fn = "_extract_identity_name"
    /\ Called(ExtractIdentityName(fn_args[1].identity))

ParseJsonResponseCall ==
    /\ pc = "call"
    /\ fn_args[1].fn = "_parse_json_response"
    /\ Called(ParseJsonResponse(fn_args[1].response_text))

NextFunctions ==
    \/ CalculateCostCall
    \/ ExtractIdentityNameCall
    \/ ParseJsonResponseCall

SpecFunctions == InitFunctions /\ [][NextFunctions]_vars

\* ================================================================ claims
Finished == pc \in {"returned", "raised"}
Last(seq) == seq[Len(seq)]
Steps == [i \in 1..Len(events) |-> events[i].step]
NoTrackerWrite == patch_log = <<>> /\ comment_log = <<>>

\* C1: complete_work_item never lets an exception escape to its caller;
\* every failure at any step, a failing progress callback included, ends in
\* a returned WorkflowResult with success=false and an error message.
C1_NoExceptionEscapes ==
    /\ escaped = None
    /\ pc /= "raised"
    /\ (pc = "returned" /\ exc /= None) =>
           (~result[1].success /\ result[1].error_message /= None)

C3_NoUpdateWithoutApproval ==
    (~dry_run /\ ~auto_approve /\ ~settings.auto_approve /\ ~display) =>
        /\ NoTrackerWrite
        /\ update_result = None

\* C4: confirmation is asked only when it is required and only after the
\* analysis succeeded; when the reply is a decline the call returns
\* success=false with error_message "User cancelled changes", work item and
\* analysis populated, no update outcome, and update_work_item is not called.
C4_DeclineCancels ==
    /\ confirm_log /= <<>> =>
          /\ ~dry_run /\ ~auto_approve /\ ~settings.auto_approve /\ display
          /\ work_item /= None /\ analysis /= None
    /\ (confirm_log /= <<>> /\ ~ConfirmChanges(confirm_log[1])) =>
          /\ pc = "returned"
          /\ escaped = None
          /\ result /= None
          /\ ~result[1].success
          /\ result[1].error_message = Some(<<"User cancelled changes">>)
          /\ result[1].work_item = work_item /\ result[1].work_item /= None
          /\ result[1].analysis = analysis /\ result[1].analysis /= None
          /\ result[1].update_result = None
          /\ NoTrackerWrite

C4_Witness ==
    /\ confirm_log = <<"n">>
    /\ pc = "returned"
    /\ result[1].error_message = Some(<<"User cancelled changes">>)
    /\ result[1].analysis /= None

\* C5: the progress events of one run are a prefix of fetching,
\* fetching_comments, analyzing, then dry_run_complete or updating followed
\* by completed or failed; error can only come last; nothing follows
\* dry_run_complete, completed, failed or error; every event carries the
\* run's work-item id.
FullSequences ==
    { <<"fetching", "fetching_comments", "analyzing", "dry_run_complete">>,
      <<"fetching", "fetching_comments", "analyzing", "updating", "completed">>,
      <<"fetching", "fetching_comments", "analyzing", "updating", "failed">> }
IsPrefix(a, b) == Len(a) <= Len(b) /\ \A i \in 1..Len(a) : a[i] = b[i]
TerminalSteps == {"dry_run_complete", "completed", "failed", "error"}
C5_EventOrder ==
    LET n == Len(events)
        body == IF n > 0 /\ Steps[n] = "error" THEN SubSeq(Steps, 1, n - 1) ELSE Steps
    IN /\ \E full \in FullSequences : IsPrefix(body, full)
       /\ \A i \in 1..n : Steps[i] \in TerminalSteps => i = n
       /\ \A i \in 1..n : events[i].data.work_item_id = work_item_id

\* C6: get_work_item retries a transient service error (not 404/401/403)
\* up to 3 attempts: it gives up on a transient failure only after the
\* third backend call, and never makes more than 3 calls.
IsTransient(o) == o.kind = "service_error" /\ o.status \notin {404, 401, 403}
GetWorkItemDone == pc \notin {"fetching", "get_work_item"}
C6_TransientFetchRetried ==
    /\ Len(tracker_log) <= MaxAttempts
    /\ (GetWorkItemDone /\ fetch_raised /= None /\ IsTransient(Last(tracker_log))) =>
          Len(tracker_log) = MaxAttempts
    /\ (Len(tracker_log) = MaxAttempts /\ Last(tracker_log).kind = "ok") =>
          work_item /= None

\* C7: analyze_work_item retries the API's transient error class up to 3
\* attempts: it gives up on a transient API error only after the third API
\* call, and never makes more than 3 calls.
C7_TransientAnalysisRetried ==
    /\ Len(api_log) <= MaxAttempts
    /\ (analyze_raised /= None /\ Last(api_log).kind = "api_error") =>
          Len(api_log) = MaxAttempts

C9_RateLimitFailsFast ==
    /\ \A i \in 1..Len(api_log) : api_log[i].kind = "rate_limit" => Len(api_log) = 1
    /\ (api_log /= <<>> /\ Last(api_log).kind = "rate_limit"
            /\ pc /= "analyze_work_item") =>
          /\ analyze_raised /= None
          /\ analyze_raised[1].cls = "RateLimitError"
          /\ ~IsInstance(analyze_raised[1].cls, "ClaudeAPIError")
          /\ analyze_raised[1].retry_after = Last(api_log).retry_after
          /\ analysis = None

C9_Witness ==
    /\ Len(api_log) = 1
    /\ api_log[1].kind = "rate_limit"
    /\ api_log[1].retry_after = Some(1)
    /\ analyze_raised = Some(RateLimitError(Some(1)))
    /\ pc = "returned"

\* C10: the comment is posted only after the field patch succeeded, and a
\* failing comment post does not undo the report of the field update: once
\* the backend accepted the patch, the outcome reports success with the
\* submitted fields as updated.
C10_CommentIndependentOfPatch ==
    /\ comment_log /= <<>> => (patch_log /= <<>> /\ Last(patch_log).kind = "ok")
    /\ (update_result /= None /\ Last(patch_log).kind = "ok") =>
          /\ update_result[1].success
          /\ update_result[1].updated_fields = FieldKeys(update_fields[1])


\* C11: update_work_item never raises for a failure of the backend: it
\* returns an outcome with success=false, no updated fields and the failure
\* text in error_message; success=true is returned only when the backend
\* accepted the patch, and updated_fields is then the keys of the field map.
BackendFailureText(entry) ==
    IF entry.kind = "service_error" THEN ServiceErrorText(entry) ELSE OtherErrorText
IsSuffix(a, b) == Len(a) <= Len(b) /\ SubSeq(b, Len(b) - Len(a) + 1, Len(b)) = a
FailedWrite ==
    IF Last(patch_log).kind /= "ok" THEN Some(Last(patch_log))
    ELSE IF comment_log /= <<>> /\ Last(comment_log).kind /= "ok"
    THEN Some(Last(comment_log)) ELSE None
CommentsFailed == comments_log /= <<>> /\ Last(comments_log).kind /= "ok"
C12_CommentFailureSwallowed ==
    /\ comments_log /= <<>> => (recent_comments /= None /\ Len(comments_log) = 1)
    /\ CommentsFailed =>
          /\ recent_comments = Some(<<>>)
          /\ exc /= None => sink_failed \/ analyze_raised /= None
          /\ \A i \in 1..Len(api_log) : api_log[i].comments = <<>>
          /\ (api_log /= <<>> /\ has_callback) => InSeq("analyzing", Steps)

C12_Witness ==
    /\ CommentsFailed
    /\ has_callback
    /\ pc = "returned"
    /\ result[1].success
    /\ api_log /= <<>> /\ api_log[1].comments = <<>>

\* C13 as stated: in every returned result, work_item is populated exactly
\* when the fetch succeeded, analysis exactly when the analysis succeeded and
\* update_result exactly when update_work_item was called; success=true implies
\* work item and analysis populated and no error message.
FetchSucceeded == tracker_log /= <<>> /\ Last(tracker_log).kind = "ok"
AnalysisSucceeded == api_log /= <<>> /\ Last(api_log).kind = "ok"
UpdateCalled == patch_log /= <<>>
C13_FieldsTellStage ==
    pc = "returned" =>
        LET r == result[1] IN
        /\ r.work_item /= None <=> FetchSucceeded
        /\ r.analysis /= None <=> AnalysisSucceeded
        /\ r.update_result /= None <=> UpdateCalled
        /\ r.success => (r.work_item /= None /\ r.analysis /= None /\ r.error_message = None)

\* C13 (amended): a returned result carries a work item only if the fetch
\* succeeded, an analysis only if the analysis succeeded and an update
\* outcome only if update_work_item was called; a result returned by the
\* exception handler carries none of the three and success=false, every other
\* result carries the work item and the analysis, and the update outcome
\* exactly when update_work_item was called; success=true implies work item
\* and analysis populated and no error message.
C13_FieldsBoundStage ==
    pc = "returned" =>
        LET r == result[1] IN
        /\ r.work_item /= None => (FetchSucceeded /\ r.work_item = work_item)
        /\ r.analysis /= None => (AnalysisSucceeded /\ r.analysis = analysis)
        /\ r.update_result /= None => (UpdateCalled /\ r.update_result = update_result)
        /\ exc /= None =>
              (~r.success /\ r.work_item = None /\ r.analysis = None
                 /\ r.update_result = None /\ r.error_message /= None)
        /\ exc = None =>
              /\ r.work_item /= None /\ r.analysis /= None
              /\ r.update_result /= None <=> UpdateCalled
        /\ r.success => (r.work_item /= None /\ r.analysis /= None /\ r.error_message = None)

C13_Witness ==
    /\ pc = "returned"
    /\ FetchSucceeded
    /\ analyze_raised /= None
    /\ ~sink_failed
    /\ result[1].work_item = None
    /\ ~result[1].success

\* C14 as stated: an approved, non-dry run whose fetch and analysis
\* succeeded calls update_work_item exactly once, with the field map of the
\* diff policy and the analysis comment; when the call succeeds the result
\* has success=true with work item, analysis and update outcome populated.
Approved ==
    \/ auto_approve
    \/ settings.auto_approve
    \/ (confirm_log /= <<>> /\ ConfirmChanges(Last(confirm_log)))
ExampleItem == [state |-> "Active", remaining_work |-> Some(4), tags |-> Some(<<"f", "o", "o">>)]
ExampleFields ==
    [k \in {StateField, RemainingWorkField, TagsField} |->
        CASE k = StateField -> "Resolved"
          [] k = RemainingWorkField -> 0
          [] k = TagsField -> <<"f", "o", "o", ";">> \o MarkerTag]
IsExample ==
    /\ work_item = Some(WorkItem(work_item_id, ExampleItem))
    /\ analysis /= None
    /\ analysis[1].suggested_status = "Resolved"
    /\ analysis[1].suggested_remaining_work = 0
SubmittedAsComputed ==
    /\ Len(patch_log) <= 1
    /\ Len(comment_log) <= 1
    /\ \A i \in 1..Len(patch_log) :
          /\ patch_log[i].fields = BuildUpdateFields(work_item[1], analysis[1])
          /\ IsExample => patch_log[i].fields = ExampleFields
    /\ \A i \in 1..Len(comment_log) :
          /\ comment_log[i].text = FormatAiComment(analysis[1])
          /\ patch_log[1].kind = "ok"
UpdateSucceeded ==
    /\ Len(patch_log) = 1 /\ patch_log[1].kind = "ok"
    /\ Len(comment_log) = 1 /\ comment_log[1].kind = "ok"
ResultOfSuccessfulUpdate ==
    /\ update_result /= None
    /\ update_result[1].success
    /\ result /= None
    /\ result[1].success
    /\ result[1].work_item = work_item
    /\ result[1].analysis = analysis
    /\ result[1].update_result = update_result
StatusMoves ==
    {<<"pending", "analyzing">>, <<"analyzing", "completed">>, <<"analyzing", "failed">>}
C15_StatusPath ==
    \A i \in 1..Len(db) :
        LET c == db[i].committed IN
        /\ c[1] = "pending"
        /\ \A j \in 1..(Len(c) - 1) : <<c[j], c[j + 1]>> \in StatusMoves
        /\ db[i].status = Last(c)
        /\ (i < Len(db) \/ caller_pc = "web_idle") => db[i].status \in {"completed", "failed"}

\* C16: the analysis runs apart from the request: the row is committed
\* before any call to the tracking service or the LLM, and the analyze
\* request is answered while the run is still in progress, the row's status
\* in the answer being not yet terminal.
C16_AnswerBeforeRunEnds ==
    /\ (mode = "web" /\ (tracker_log /= <<>> \/ api_log /= <<>>)) => db /= <<>>
    /\ (response /= None /\ response[1].op = "analyze" /\ response[1].code = 200) =>
          response[1].status[1] \in {"pending", "analyzing"}

\* C17: no sequence of web-service operations calls update_work_item or
\* add_comment: every run is started with dry_run=true and auto_approve=false
\* whatever auto-approve value is stored, and apply_changes writes nothing.
C17_WebNeverWrites ==
    mode = "web" =>
        /\ NoTrackerWrite
        /\ update_result = None
        /\ pc /= "idle" => (dry_run /\ ~auto_approve)
        /\ (response /= None /\ response[1].op = "apply") => response[1].code = 500

C17_Witness ==
    /\ mode = "web"
    /\ settings.auto_approve
    /\ pc = "returned"
    /\ result[1].success
    /\ db /= <<>> /\ db[1].status = "completed"
    /\ response /= None /\ response[1].op = "apply"
    /\ NoTrackerWrite

\* C18: when the settings' dry_run flag is true, a `complete` run only
\* simulates: update_work_item is never called and nothing is written.
C18_SettingsDryRunSimulates ==
    (mode = "cli" /\ settings.dry_run) =>
        /\ NoTrackerWrite
        /\ update_result = None


\* C19: when the proposed state equals the current state, the proposed
\* remaining work equals the current remaining work and the marker tag is
\* already one of the semicolon-separated tags, _build_update_fields returns
\* the empty field map.
NothingToChange ==
    /\ analysis[1].suggested_status = work_item[1].state
    /\ Some(analysis[1].suggested_remaining_work) = work_item[1].remaining_work
    /\ work_item[1].tags /= None
    /\ InSeq(MarkerTag, Split(work_item[1].tags[1], ";"))
C19_NoChangeEmptyMap ==
    (pc = "built" /\ NothingToChange) => DOMAIN update_fields[1] = {}

C19_Witness ==
    /\ pc = "built"
    /\ NothingToChange
    /\ work_item[1].tags = Some(<<"f", "o", "o", ";">> \o MarkerTag)
    /\ work_item[1].remaining_work = Some(4)
    /\ DOMAIN update_fields[1] = {}

\* C20: for a tag string without the marker tag (absent and empty strings
\* included) the System.Tags value, split on ";", is the original tags in
\* their order followed by the marker exactly once at the end; when the marker
\* is already one of the tags, System.Tags is not in the field map.
OriginalTags ==
    IF work_item[1].tags = None \/ work_item[1].tags = Some(<<>>)
    THEN <<>> ELSE Split(work_item[1].tags[1], ";")
C20_MarkerAppendedOnce ==
    pc = "built" =>
        IF InSeq(MarkerTag, OriginalTags)
        THEN TagsField \notin DOMAIN update_fields[1]
        ELSE /\ TagsField \in DOMAIN update_fields[1]
             /\ LET out == Split(update_fields[1][TagsField], ";") IN
                /\ out = Append(OriginalTags, MarkerTag)
                /\ Cardinality({i \in 1..Len(out) : out[i] = MarkerTag}) = 1

C20_Witness ==
    /\ pc = "built"
    /\ OriginalTags = << <<"f", "o", "o">>,
                         <<"a", "i", "-", "c", "o", "m", "p", "l", "e", "t", "e", "d">> >>
    /\ update_fields[1][TagsField] =
          <<"f", "o", "o", ";", "a", "i", "-", "c", "o", "m", "p", "l", "e", "t", "e", "d", ";">>
             \o MarkerTag


\* C21: a value field is in the map only if the proposed value differs from
\* the current one, and then carries the proposed value; the state is
\* compared exactly, letter case included; the remaining work is in the map
\* whenever the proposed number differs from the current value, an absent
\* current value differing from every number, 0 included.
C21_ValueFieldsOnlyWhenChanged ==
    pc = "built" =>
        LET w == work_item[1]
            a == analysis[1]
            f == update_fields[1]
        IN /\ StateField \in DOMAIN f =>
                (a.suggested_status /= w.state /\ f[StateField] = a.suggested_status)
           /\ (a.suggested_status /= "" /\ a.suggested_status /= w.state) =>
                StateField \in DOMAIN f
           /\ RemainingWorkField \in DOMAIN f <=>
                (w.remaining_work = None \/ w.remaining_work[1] /= a.suggested_remaining_work)
           /\ RemainingWorkField \in DOMAIN f =>
                f[RemainingWorkField] = a.suggested_remaining_work

C21_Witness ==
    /\ pc = "built"
    /\ work_item[1].state = "Active"
    /\ analysis[1].suggested_status = "active"
    /\ work_item[1].remaining_work = None
    /\ analysis[1].suggested_remaining_work = 0
    /\ update_fields[1][StateField] = "active"
    /\ update_fields[1][RemainingWorkField] = 0

\* C29: the diff policy leaves the work item it is given unchanged and,
\* once the returned map is applied, returns the empty map for the same
\* analysis on the updated work item: the marker tag is not added again.
MarkerCount(tags) ==
    IF tags = None THEN 0
    ELSE Cardinality({i \in 1..Len(Split(tags[1], ";")) : Split(tags[1], ";")[i] = MarkerTag})
FirstFenceBlock(text) ==
    LET open == Find(text, {JsonFence, Fence}, 1) IN
    (IF text[open] = JsonFence THEN <<"junk">> ELSE <<>>) \o FencedBlock(text, open)
Shapes(text) ==
    <<text>>
    \o (IF Find(text, {JsonFence}, 1) /= 0
        THEN <<FencedBlock(text, Find(text, {JsonFence}, 1))>> ELSE <<>>)
    \o (IF Find(text, {JsonFence, Fence}, 1) /= 0 THEN <<FirstFenceBlock(text)>> ELSE <<>>)
    \o (IF HasBraceSpan(text) THEN <<BraceSpan(text)>> ELSE <<>>)
Decoding(text) == SelectSeq(Shapes(text), LAMBDA shape : ~JsonLoads(shape).raised)
C22_FirstDecodingShapeWins ==
    (pc = "called" /\ fn_args[1].fn = "_parse_json_response") =>
        LET decoding == Decoding(fn_args[1].response_text) IN
        IF decoding = <<>> THEN fn_result[1].raised
        ELSE ~fn_result[1].raised /\ fn_result[1].value = decoding[1]

\* C24: calculate_cost takes the tier from the lower-cased model name (opus:
\* 5 and 25 per million tokens; sonnet: 1 and 5; any other name: opus) and
\* returns input/1e6*inputRate + output/1e6*outputRate; a million input tokens
\* on claude-opus-4-6 cost 5, a million output tokens on claude-sonnet-4-5
\* cost 5, a million of each on foo cost 30; for a fixed tier the cost never
\* decreases when a token count increases.
IsSonnetTier(model) ==
    Contains(StrLower(model), SonnetName) /\ ~Contains(StrLower(model), OpusName)
C24_CostByTier ==
    (pc = "called" /\ fn_args[1].fn = "calculate_cost") =>
        LET u == fn_args[1].usage
            name == fn_args[1].model
            cost == fn_result[1]
        IN /\ IsSonnetTier(name) => cost = u.input_tokens * 1 + u.output_tokens * 5
           /\ ~IsSonnetTier(name) => cost = u.input_tokens * 5 + u.output_tokens * 25
           /\ (name = <<"S", "O", "N", "N", "E", "T">> /\ u.input_tokens = Million
                 /\ u.output_tokens = 0) => cost = 1 * Million
           /\ (name = <<"f", "o", "o">> /\ u.input_tokens = Million
                 /\ u.output_tokens = Million) => cost = 30 * Million
           /\ \A more \in TokenUsages :
                 (more.input_tokens >= u.input_tokens
                    /\ more.output_tokens >= u.output_tokens) =>
                       CalculateCost(more, name) >= cost

C24_Witness ==
    /\ pc = "called"
    /\ fn_args[1].fn = "calculate_cost"
    /\ fn_args[1].model =
          <<"c", "l", "a", "u", "d", "e", "-", "s", "o", "n", "n", "e", "t", "-", "4", "-", "5">>
    /\ fn_args[1].usage = [input_tokens |-> 0, output_tokens |-> Million]
    /\ fn_result[1] = 5 * Million

\* C25: _extract_identity_name returns the first available of the display
\* name, the unique name and the string coercion of the value, and null only
\* for an absent value; a missing or empty display name with a unique name
\* set yields the unique name, and neither yields the string coercion.
NameSet(attr) == attr.present /\ Truthy(attr.value)
C25_IdentityNamePriority ==
    (pc = "called" /\ fn_args[1].fn = "_extract_identity_name") =>
        LET identity == fn_args[1].identity
            name == fn_result[1]
        IN /\ identity.kind = "none" <=> name = None
           /\ identity.kind = "str" => name = Some(identity.text)
           /\ identity.kind \in {"dict", "object"} =>
                 IF NameSet(identity.display_name) THEN name = identity.display_name.value
                 ELSE IF NameSet(identity.unique_name) THEN name = identity.unique_name.value
                 ELSE name = StrCoercion(identity)


\* C23: each field missing from the parsed JSON takes its default in the
\* AnalysisResult: empty text for analysis, solution and comment, empty list
\* for tasks, risks and file changes, 0 for the suggested remaining work and
\* the work item's current state for the suggested state; a response without
\* a suggested state therefore never puts System.State in a submitted patch.
TextKeys == {"analysis", "solution", "comment"}
ListKeys == {"tasks", "risks", "file_changes"}
ParsedKeys == TextKeys \cup ListKeys \cup {"suggested_status", "suggested_remaining_work"}
DefaultOf(k, wi) ==
    CASE k = "suggested_status" -> wi.state
      [] k = "suggested_remaining_work" -> 0
      [] OTHER -> <<>>
ResultField(a, k) ==
    CASE k = "suggested_status" -> a.suggested_status
      [] k = "suggested_remaining_work" -> a.suggested_remaining_work
      [] k = "analysis" -> a.analysis
      [] k = "solution" -> a.solution
      [] k = "comment" -> a.comment
      [] k = "tasks" -> a.tasks
      [] k = "risks" -> a.risks
      [] OTHER -> a.file_changes
C23_MissingFieldsDefault ==
    analysis /= None =>
        LET parsed == Last(api_log).parsed
            a == analysis[1]
        IN /\ \A k \in ParsedKeys :
                 ResultField(a, k) = IF k \in DOMAIN parsed THEN parsed[k]
                                     ELSE DefaultOf(k, work_item[1])
           /\ "suggested_status" \notin DOMAIN parsed =>
                 \A i \in 1..Len(patch_log) : StateField \notin DOMAIN patch_log[i].fields
C23_Witness ==
    /\ analysis /= None
    /\ Last(api_log).parsed = BareResponse
    /\ work_item[1].state = "Active"
    /\ analysis[1].suggested_status = "Active"
    /\ analysis[1].comment = <<>>
    /\ patch_log /= <<>>
    /\ Last(patch_log).kind = "ok"
    /\ StateField \notin DOMAIN Last(patch_log).fields
    /\ pc = "returned"

\* C27: in a run that reached the update step, the result's success is the
\* update outcome's; after a successful update the last event is completed;
\* after a failed one the last event is failed with the outcome's error
\* message, the result carries that message, and work item, analysis and
\* update outcome are all populated.
C27_ResultMirrorsUpdate ==
    (update_result /= None /\ Finished) =>
        LET u == update_result[1] IN
        /\ pc = "returned"
        /\ result[1].success = u.success
        /\ result[1].work_item = work_item
        /\ result[1].analysis = analysis
        /\ result[1].update_result = update_result
        /\ ~u.success => result[1].error_message = u.error_message
        /\ has_callback =>
              /\ events /= <<>>
              /\ Last(events).step = IF u.success THEN "completed" ELSE "failed"
              /\ ~u.success => Last(events).data.error = u.error_message

\* C28: in one run the tracking service receives at most one field patch and
\* at most one comment post; the comment is posted only after the patch was
\* accepted, and neither call is made before the fetch and the analysis of
\* the run have both succeeded.
C28_AtMostOneWrite ==
    /\ Len(patch_log) <= 1
    /\ Len(comment_log) <= 1
    /\ comment_log /= <<>> => (patch_log /= <<>> /\ patch_log[1].kind = "ok")
    /\ ~NoTrackerWrite => (FetchSucceeded /\ AnalysisSucceeded /\ work_item /= None
                           /\ analysis /= None)
C28_Witness ==
    /\ Len(patch_log) = 1
    /\ patch_log[1].kind = "ok"
    /\ Len(comment_log) = 1
    /\ comment_log[1].kind = "service_error"
    /\ Finished

\* C30: every stored history row has completed_at set exactly when its
\* status is completed or failed; a completed row has analysis result, token
\* usage and cost and no error message; a failed row has an error message
\* and no analysis result.
C30_HistoryRowConsistent ==
    \A i \in 1..Len(db) :
        LET h == db[i] IN
        /\ h.completed_at /= None <=> h.status \in {"completed", "failed"}
        /\ h.status = "completed" =>
              /\ h.analysis_result /= None
              /\ h.token_usage /= None
              /\ h.cost /= None
              /\ h.error_message = None
        /\ h.status = "failed" =>
              /\ h.error_message /= None
              /\ h.analysis_result = None


\* C26: the CLI commands fetch and complete exit with code 0 exactly when
\* the orchestrator returned a result with success=true, and with code 1
\* otherwise: for a result with success=false, a declined confirmation
\* included, and for an error while the settings are loaded or the clients
\* built, which happens before any call to the tracking service or the LLM.
CliSetupFailed == caller_pc = "cli_done" /\ pc = "idle"
C26_ExitCodeMirrorsSuccess ==
    mode = "cli" =>
        /\ exit_code /= None <=> caller_pc = "cli_done"
        /\ exit_code \in {None, Some(0), Some(1)}
        /\ exit_code = Some(0) <=>
              (caller_pc = "cli_done" /\ result /= None /\ result[1].success)
        /\ caller_pc = "cli_done" => (result /= None \/ CliSetupFailed)
        /\ CliSetupFailed =>
              /\ exit_code = Some(1)
              /\ tracker_log = <<>> /\ comments_log = <<>> /\ api_log = <<>>
              /\ NoTrackerWrite
C26_Witness ==
    /\ mode = "cli"
    /\ exit_code = Some(1)
    /\ result /= None
    /\ result[1].error_message = Some(<<"User cancelled changes">>)
    /\ confirm_log /= <<>>
    /\ NoTrackerWrite

====
